---------------------------- MODULE Spec2Model ----------------------------
(***************************************************************************)
(* Verification model of the DynoGraph dataset/batching/windowing engine:  *)
(* EdgeListDataset and RmatDataset (src/edgelist_dataset.cc,               *)
(* src/rmat_dataset.cc), the Batch views and the C utility layer           *)
(* (src/dynograph_util.c).                                                 *)
(***************************************************************************)
EXTENDS Integers, Sequences, FiniteSets, TLC

(***************************************************************************)
(* Bounds of the model.                                                    *)
(***************************************************************************)
\* largest num_batches of a pass over the epoch gate
MaxGateBatches == 9
\* largest number of records in an edge file
MaxEdges == 3
\* largest timestamp in an edge file
MaxTimestamp == 2
\* largest --batch-size
MaxBatchSize == 2
\* largest --num-epochs
MaxEpochs == 2
\* largest num_edges of an RMAT descriptor
MaxRmatEdges == 3
\* period of the sequence an RMAT generator emits
StreamLen == 3
\* most batches requested from an RMAT dataset between two resets
MaxPassCalls == 2
\* most resets of an RMAT dataset
MaxResets == 1
\* largest number of edges of a batch handed to DeduplicatedBatch
MaxDedupLen == 3
\* largest number of batches of a dataset run() works through
MaxRunBatches == 9
\* largest --num-trials
MaxTrials == 2
\* largest num_alg_trials
MaxAlgTrials == 2
\* largest number of lines of a text edge file, and of whole records of a
\* binary one
MaxLines == 2
\* largest number of fscanf calls of one load that are followed
MaxScanCalls == 5
\* largest number of cooperating processes (comm_size)
MaxRanks == 3
\* largest number of edges rank 0 holds before it distributes them
MaxMpiEdges == 6

(***************************************************************************)
(* IEEE-754 binary64 arithmetic on positive values.  A double is the       *)
(* record [m, e] standing for M * 2^e where M = m[1] * 2^27 + m[2] is the  *)
(* 53-bit significand (2^52 <= M < 2^53); zero is [m |-> <<0,0>>, e |-> 0].*)
(* The significand is kept in two 27-bit limbs.                            *)
(***************************************************************************)
\* number of significand bits of a double
MantBits == 53
\* limb width of the two-limb significand
LimbBits == 27

Limb == 2 ^ LimbBits

\* hi limb of 2^52, the smallest normalized significand
MinHi == 2 ^ (MantBits - 1 - LimbBits)

BigShl1(x) ==
    LET lo2 == 2 * x[2]
    IN  << 2 * x[1] + (lo2 \div Limb), lo2 % Limb >>

BigGeq(x, y) == x[1] > y[1] \/ (x[1] = y[1] /\ x[2] >= y[2])

BigSub(x, y) ==
    IF x[2] >= y[2] THEN << x[1] - y[1], x[2] - y[2] >>
                    ELSE << x[1] - y[1] - 1, x[2] + Limb - y[2] >>

BigInc(x) ==
    IF x[2] + 1 = Limb THEN << x[1] + 1, 0 >> ELSE << x[1], x[2] + 1 >>

DZero == [m |-> <<0, 0>>, e |-> 0]

IsZero(d) == d.m = <<0, 0>>

RECURSIVE BitLen(_)
BitLen(x) == IF x = 0 THEN 0 ELSE 1 + BitLen(x \div 2)

\* static_cast<double>(x) for an integer 0 <= x < 2^27: exact
ToDouble(x) ==
    IF x = 0 THEN DZero
    ELSE LET k == MantBits - BitLen(x)      \* left shift that normalizes x
         IN  IF k >= LimbBits
             THEN [m |-> << x * 2 ^ (k - LimbBits), 0 >>, e |-> -k]
             ELSE [m |-> << x \div 2 ^ (LimbBits - k),
                            (x % 2 ^ (LimbBits - k)) * 2 ^ k >>, e |-> -k]

\* One step of the long division of the significands: one more quotient bit.
DivStep(st, den) ==
    LET r2 == BigShl1(st.rem)
        q2 == BigShl1(st.q)
    IN  IF BigGeq(r2, den) THEN [q |-> BigInc(q2), rem |-> BigSub(r2, den)]
                           ELSE [q |-> q2, rem |-> r2]

\* k steps of the long division (the first half of the steps, then the rest)
RECURSIVE DivBits(_, _, _)
DivBits(st, den, k) ==
    IF k = 0 THEN st
    ELSE IF k = 1 THEN DivStep(st, den)
    ELSE CHOOSE r \in { DivBits(half, den, k - (k \div 2)) :
                            half \in {DivBits(st, den, k \div 2)} } : TRUE

\* x / y on doubles, y > 0, rounded to nearest, ties to even
DoubleDiv(x, y) ==
    IF IsZero(x) THEN DZero
    ELSE LET big  == BigGeq(x.m, y.m)
             num  == IF big THEN x.m ELSE BigShl1(x.m)
             e0   == x.e - y.e - (IF big THEN MantBits - 1 ELSE MantBits)
             d    == DivBits([q |-> <<0, 1>>, rem |-> BigSub(num, y.m)], y.m, MantBits - 1)
             r2   == BigShl1(d.rem)
             up   == IF r2 = y.m THEN d.q[2] % 2 = 1 ELSE BigGeq(r2, y.m)
             q    == IF up THEN BigInc(d.q) ELSE d.q
         IN  IF q[1] >= 2 * MinHi
             THEN [m |-> << MinHi, 0 >>, e |-> e0 + 1]
             ELSE [m |-> q, e |-> e0]

\* static_cast<double>(x) / static_cast<double>(y)
true_div(x, y) == DoubleDiv(ToDouble(x), ToDouble(y))

\* static_cast<int64_t>(std::floor(x)), and (int64_t)x, for x >= 0
round_down(d) ==
    IF IsZero(d) \/ d.e <= -MantBits THEN 0
    ELSE IF d.e >= 0 THEN (d.m[1] * Limb + d.m[2]) * 2 ^ d.e
    ELSE IF -d.e >= LimbBits THEN d.m[1] \div 2 ^ (-d.e - LimbBits)
    ELSE d.m[1] * 2 ^ (LimbBits + d.e) + d.m[2] \div 2 ^ (-d.e)

(***************************************************************************)
(* Epoch gating.                                                           *)
(***************************************************************************)
enableAlgsForBatch(num_batches, num_epochs, batch_id) ==
    LET batches_per_epoch == true_div(num_batches, num_epochs)
        batches_before == round_down(DoubleDiv(ToDouble(batch_id), batches_per_epoch))
        batches_after  == round_down(DoubleDiv(ToDouble(batch_id + 1), batches_per_epoch))
    IN  (batches_after - batches_before) > 0

(***************************************************************************)
(* Values.                                                                 *)
(***************************************************************************)
Vertices == {1, 2}

Timestamps == 0..MaxTimestamp

\* struct Edge of an edge file (weight 1 throughout)
FileEdges == [src : Vertices, dst : Vertices, weight : {1}, timestamp : Timestamps]

RECURSIVE SeqsUpTo(_, _)
SeqsUpTo(S, n) ==
    IF n = 0 THEN {<< >>}
    ELSE LET shorter == SeqsUpTo(S, n - 1)
         IN  shorter \cup {Append(q, x) : q \in {t \in shorter : Len(t) = n - 1}, x \in S}

\* The contents of an edge file, as the loader stores them in edges.
EdgeFiles == SeqsUpTo(FileEdges, MaxEdges)

\* --window-size, a double in [0,1]: the values k/4, which a double holds
\* exactly and whose product with a small integer is exact as well.
WindowSizes == { [num |-> 0, den |-> 1], [num |-> 1, den |-> 4], [num |-> 1, den |-> 2],
                 [num |-> 3, den |-> 4], [num |-> 1, den |-> 1] }

\* Args that passed Args::validate
ValidArgs == [batch_size : 1..MaxBatchSize, num_epochs : 1..MaxEpochs,
              window_size : WindowSizes]

Unset == -1

\* the vertex counts of an RMAT descriptor
RmatVertexCounts == {1, 2}

\* The (src, dst) pairs a generator over num_vertices vertices can emit.
RmatPairs(num_vertices) ==
    [src : 0..(num_vertices - 1), dst : 0..(num_vertices - 1)]

RECURSIVE SeqsOfLen(_, _)
SeqsOfLen(S, n) ==
    IF n = 0 THEN {<< >>}
    ELSE {Append(q, x) : q \in SeqsOfLen(S, n - 1), x \in S}

\* RmatArgs: num_edges, num_vertices, and for a, b, c, d the sequence of
\* pairs a generator built from them emits (repeated with period StreamLen).
RmatArgsSet ==
    UNION { [num_edges : 0..MaxRmatEdges, num_vertices : {nv},
             stream : SeqsOfLen(RmatPairs(nv), StreamLen)] : nv \in RmatVertexCounts }

RmatIdle == [rmat_args |-> [num_edges |-> 0, num_vertices |-> 1, stream |-> << >>],
             current_batch |-> 0, num_edges |-> 0, num_batches |-> 0,
             num_vertices |-> 1, next_timestamp |-> 0, generator |-> [pos |-> 1]]

NoCall == [op |-> "none", id |-> 0, size |-> 0, i |-> 0, first_timestamp |-> 0,
           edges |-> << >>]

\* Args::SORT_MODE
SortModes == {"UNSORTED", "PRESORT", "SNAPSHOT"}

RunIdle == [pc |-> "idle", num_batches |-> 0, num_epochs |-> 0, num_trials |-> 0,
            num_alg_trials |-> 0, window_full |-> TRUE, trial |-> 0, batch_id |-> 0,
            epoch |-> 0, ops |-> << >>, diag |-> "none", alg_names |-> << >>]

CfgIdle == [what |-> "none", value |-> << >>, by |-> "none", fatal |-> FALSE,
            messages |-> << >>]

\* an edge file as the loaders see it: the text of a .graph.el file as its
\* tokens, the content of a .graph.bin file as its whole records and the
\* bytes that follow the last whole record
NoFile == [tokens |-> << >>, records |-> << >>, tail_bytes |-> 0]

\* the loader of an edge file: its position, its locals and the edge array
LoaderIdle == [pc |-> "idle", format |-> "none", file |-> NoFile, numEdges |-> 0,
               pos |-> 0, e |-> 0, rc |-> 0, edges |-> << >>, written |-> {},
               diag |-> "none"]

\* the distribution of the edges in the MPI build: the locals of the
\* constructor on rank 0 and the receive buffer of every rank
MpiIdle == [pc |-> "idle", comm_size |-> 1, num_batches |-> 1, all_edges |-> << >>,
            edges_per_batch |-> 0, edges_per_slice |-> << >>, displacements |-> << >>,
            batch_id |-> 0, local |-> << >>, diag |-> "none"]

\* the graph instance as a set of (src, dst, timestamp) entries, one per
\* (src, dst): inc as the incremental modes build it, snap as SNAPSHOT mode
\* builds it over the same dataset; fresh: snap was rebuilt by the last batch
GraphIdle == [pc |-> "idle", batch_id |-> 0, inc |-> {}, snap |-> {}, fresh |-> FALSE]

DedupIdle == [phase |-> "none", batch |-> << >>, sorted_edges |-> << >>,
              deduped_edges |-> << >>]

HistIdle == [accepted |-> 0, calls |-> 0, resets |-> 0, first |-> << >>, cur |-> << >>,
             initial |-> [current_batch |-> 0, next_timestamp |-> 0,
                          generator |-> [pos |-> 1]]]

NoRet == [op |-> "none", id |-> 0, val |-> 0]

Max2(a, b) == IF a > b THEN a ELSE b

SetMax(S) == CHOOSE x \in S : \A y \in S : y <= x

SetMin(S) == CHOOSE x \in S : \A y \in S : x <= y

(***************************************************************************)
(* State.                                                                  *)
(***************************************************************************)
VARIABLES
    gate,           \* a pass over the batch ids of a dataset, asking the epoch gate
    pc,             \* "start", "ready", "generating" (inside RmatBatch), "fatal" (die / abort)
    kind,           \* the dataset create_dataset built: "none", "edgelist", "rmat"
    diag,           \* the diagnostic the logger printed before die()
    args,           \* Dataset::args
    edges,          \* EdgeListDataset::edges
    batches,        \* EdgeListDataset::batches, each a [begin, end) pair of offsets into edges
    max_vertex_id,  \* EdgeListDataset::max_vertex_id
    min_timestamp,  \* EdgeListDataset::min_timestamp
    max_timestamp,  \* EdgeListDataset::max_timestamp
    rmat,           \* the fields of the RmatDataset
    call,           \* the current or last call on the RmatDataset; for getBatch and
                    \* getBatchesUpTo the frame of the RmatBatch constructor
    hist,           \* history: the batches the RmatDataset returned, per pass
    dedup,          \* a DeduplicatedBatch: the batch given, sorted_edges, deduped_edges
    sort_mode,      \* Args::sort_mode
    run,            \* the locals of run(): trial, batch_id, epoch, and what it called
    cfg,            \* a configuration under validation and what validation said
    loader,         \* an edge file being loaded: the file, the read position, the array
    mpi,            \* the distribution of rank 0's edges over the ranks
    graph,          \* the content of the graph instance, built incrementally and as a snapshot
    ret             \* what the last call on the dataset returned

eldVars == << args, edges, batches, max_vertex_id, min_timestamp, max_timestamp >>

rmatVars == << rmat, call, hist >>

\* the state outside the datasets
auxVars == << sort_mode, run, cfg, loader, mpi, graph >>

vars == << gate, pc, kind, diag, eldVars, rmatVars, dedup, auxVars, ret >>

GateIdle == [num_batches |-> 0, num_epochs |-> 0, batch_id |-> 0, enabled |-> {}]

DatasetIdle ==
    /\ pc = "start"
    /\ kind = "none"
    /\ diag = "none"
    /\ args = [batch_size |-> 1, num_epochs |-> 1, window_size |-> [num |-> 1, den |-> 1]]
    /\ edges = << >>
    /\ batches = << >>
    /\ max_vertex_id = Unset
    /\ min_timestamp = Unset
    /\ max_timestamp = Unset
    /\ rmat = RmatIdle
    /\ call = NoCall
    /\ hist = HistIdle
    /\ dedup = DedupIdle
    /\ run = RunIdle
    /\ cfg = CfgIdle
    /\ loader = LoaderIdle /\ graph = GraphIdle /\ mpi = MpiIdle
    /\ ret = NoRet

(***************************************************************************)
(* A full pass over batch ids 0 .. num_batches-1 asking enableAlgsForBatch.*)
(***************************************************************************)
GateInit ==
    /\ sort_mode = "UNSORTED"
    /\ \E nb \in 1..MaxGateBatches : \E ne \in 1..nb :
        gate = [num_batches |-> nb, num_epochs |-> ne, batch_id |-> 0,
                enabled |-> {}]
    /\ DatasetIdle

GateStep ==
    /\ gate.batch_id < gate.num_batches
    /\ gate' = [gate EXCEPT
            !.batch_id = @ + 1,
            !.enabled = IF enableAlgsForBatch(gate.num_batches, gate.num_epochs, gate.batch_id)
                        THEN @ \cup {gate.batch_id} ELSE @]
    /\ UNCHANGED << pc, kind, diag, eldVars, rmatVars, dedup, auxVars, ret >>

GateNext == GateStep

SpecGate == GateInit /\ [][GateNext]_vars

(***************************************************************************)
(* EdgeListDataset.                                                        *)
(***************************************************************************)
\* variant: the comparator with its arguments exchanged
IsSortedByTimestamp_Reversed(es) ==
    \A i \in 1..(Len(es) - 1) : ~(es[i].timestamp < es[i + 1].timestamp)

\* std::is_sorted(edges, a.timestamp < b.timestamp)
IsSortedByTimestamp(es) ==
    \A i \in 1..(Len(es) - 1) : ~(es[i + 1].timestamp < es[i].timestamp)

\* variant: only the first edge is examined
HasSelfEdge_FirstOnly(es) == Len(es) > 0 /\ es[1].src = es[1].dst

\* std::find_if(edges, e.src == e.dst) != edges.end()
HasSelfEdge(es) == \E i \in 1..Len(es) : es[i].src = es[i].dst

\* std::max_element over max(src, dst)
MaxVertexOf(es) == SetMax({Max2(es[i].src, es[i].dst) : i \in 1..Len(es)})

\* variant: every batch ends one edge early
SliceBatches_Short(num_batches, batch_size) ==
    [i \in 1..num_batches |->
        [begin |-> (i - 1) * batch_size, end |-> (i - 1) * batch_size + batch_size - 1]]

\* the loop that pushes Batch(begin, end) for i in 0 .. num_batches-1
SliceBatches(num_batches, batch_size) ==
    [i \in 1..num_batches |->
        [begin |-> (i - 1) * batch_size, end |-> (i - 1) * batch_size + batch_size]]

\* The constructor, after the file is loaded into es: the fields it leaves
\* and whether it returned ("ready") or died ("fatal").
EdgeListDatasetCtor(a, es) ==
    LET num_batches == Len(es) \div a.batch_size
        base == [pc |-> "fatal", diag |-> "none", batches |-> << >>,
                 max_vertex_id |-> Unset,
                 min_timestamp |-> Unset, max_timestamp |-> Unset]
    IN  IF a.batch_size > Len(es)
             THEN [base EXCEPT !.diag = "batch size cannot be larger than the total number of edges"]
        ELSE IF a.num_epochs > num_batches
             THEN [base EXCEPT !.diag = "number of epochs cannot be greater than the number of batches"]
        ELSE IF ~IsSortedByTimestamp(es)
             THEN [base EXCEPT !.diag = "edges not sorted by timestamp",
                               !.max_vertex_id = MaxVertexOf(es)]
        ELSE IF HasSelfEdge(es)
             THEN [base EXCEPT !.diag = "no self-edges allowed",
                               !.max_vertex_id = MaxVertexOf(es),
                               !.min_timestamp = es[1].timestamp,
                               !.max_timestamp = es[Len(es)].timestamp]
        ELSE [pc |-> "ready", diag |-> "none",
              batches |-> SliceBatches(num_batches, a.batch_size),
              max_vertex_id |-> MaxVertexOf(es),
              min_timestamp |-> es[1].timestamp,
              max_timestamp |-> es[Len(es)].timestamp]

\* the edges a Batch(begin, end) views
BatchEdges(b) == SubSeq(edges, b.begin + 1, b.end)

\* variant: the product rounded up
WindowTime_RoundUp(window_size, span) ==
    (window_size.num * span + window_size.den - 1) \div window_size.den

\* round_down(args.window_size * span): exact for the window sizes k/4
WindowTime(window_size, span) == (window_size.num * span) \div window_size.den

\* variant: the result is not clamped to min_timestamp
EdgeList_getTimestampForWindow_NoClamp(batchId) ==
    LET window_time == WindowTime(args.window_size, max_timestamp - min_timestamp)
        latest_time == edges[batches[batchId + 1].end].timestamp
    IN  latest_time - window_time

EdgeList_getTimestampForWindow(batchId) ==
    LET window_time == WindowTime(args.window_size, max_timestamp - min_timestamp)
        latest_time == edges[batches[batchId + 1].end].timestamp
    IN  Max2(min_timestamp, latest_time - window_time)

EdgeList_getBatch(batchId) == BatchEdges(batches[batchId + 1])

CreateEdgeListDataset ==
    /\ pc = "start"
    /\ \E a \in ValidArgs, file \in EdgeFiles :
        LET r == EdgeListDatasetCtor(a, file)
        IN  /\ args' = a
            /\ edges' = file
            /\ kind' = "edgelist"
            /\ pc' = r.pc
            /\ diag' = r.diag
            /\ batches' = r.batches
            /\ max_vertex_id' = r.max_vertex_id
            /\ min_timestamp' = r.min_timestamp
            /\ max_timestamp' = r.max_timestamp
    /\ ret' = NoRet
    /\ UNCHANGED << auxVars, dedup, gate, rmatVars >>

EdgeListGetBatch ==
    /\ pc = "ready" /\ kind = "edgelist"
    /\ \E id \in 0..(Len(batches) - 1) :
        ret' = [op |-> "getBatch", id |-> id, val |-> EdgeList_getBatch(id)]
    /\ UNCHANGED << auxVars, dedup, gate, pc, kind, diag, eldVars, rmatVars >>

EdgeListGetTimestampForWindow ==
    /\ pc = "ready" /\ kind = "edgelist"
    /\ \E id \in 0..(Len(batches) - 1) :
        ret' = [op |-> "getTimestampForWindow", id |-> id,
                val |-> EdgeList_getTimestampForWindow(id)]
    /\ UNCHANGED << auxVars, dedup, gate, pc, kind, diag, eldVars, rmatVars >>

(***************************************************************************)
(* RmatDataset.                                                            *)
(***************************************************************************)
\* rmat_edge_generator(num_vertices, a, b, c, d): a fresh generator,
\* at the start of the sequence its parameters determine
rmat_edge_generator(ra) == [pos |-> 1]

\* generator.next_edge(&src, &dst): the pair emitted and the generator after
next_edge(ra, g) ==
    [src |-> ra.stream[g.pos].src, dst |-> ra.stream[g.pos].dst,
     generator |-> [pos |-> (g.pos % Len(ra.stream)) + 1]]

\* variant: the test of num_epochs against num_batches is missing
RmatDatasetCtor_NoEpochCheck(a, ra) ==
    LET num_edges == ra.num_edges
        num_batches == num_edges \div a.batch_size
        r == [rmat_args |-> ra, current_batch |-> 0, num_edges |-> num_edges,
              num_batches |-> num_batches, num_vertices |-> ra.num_vertices,
              next_timestamp |-> 0, generator |-> rmat_edge_generator(ra)]
    IN  IF a.batch_size > num_edges
             THEN [pc |-> "fatal", rmat |-> r,
                   diag |-> "batch size cannot be larger than the total number of edges"]
        ELSE [pc |-> "ready", rmat |-> r, diag |-> "none"]

\* The constructor: the member initializers, then the sanity checks.
RmatDatasetCtor(a, ra) ==
    LET num_edges == ra.num_edges
        num_batches == num_edges \div a.batch_size
        r == [rmat_args |-> ra, current_batch |-> 0, num_edges |-> num_edges,
              num_batches |-> num_batches, num_vertices |-> ra.num_vertices,
              next_timestamp |-> 0, generator |-> rmat_edge_generator(ra)]
    IN  IF a.batch_size > num_edges
             THEN [pc |-> "fatal", rmat |-> r,
                   diag |-> "batch size cannot be larger than the total number of edges"]
        ELSE IF a.num_epochs > num_batches
             THEN [pc |-> "fatal", rmat |-> r,
                   diag |-> "number of epochs cannot be greater than the number of batches"]
        ELSE [pc |-> "ready", rmat |-> r, diag |-> "none"]

\* variant: the result is not clamped at 0
Rmat_getTimestampForWindow_NoClamp(batchId) ==
    (batchId + 1) * args.batch_size - WindowTime(args.window_size, rmat.num_edges)

Rmat_getTimestampForWindow(batchId) ==
    LET window_time == WindowTime(args.window_size, rmat.num_edges)
        latest_time == (batchId + 1) * args.batch_size
    IN  Max2(0, latest_time - window_time)

\* assert(batchId == current_batch)
Rmat_getBatchAccepts(r, batchId) == batchId = r.current_batch

\* getBatch past its assertion: the counters move on and the RmatBatch
\* constructor starts with first_timestamp.
Rmat_getBatchEnter(r, a, batchId) ==
    [rmat |-> [r EXCEPT !.current_batch = @ + 1,
                        !.next_timestamp = @ + a.batch_size],
     call |-> [op |-> "getBatch", id |-> batchId, size |-> a.batch_size, i |-> 0,
               first_timestamp |-> r.next_timestamp, edges |-> << >>]]

\* assert(batchId == 0)
Rmat_getBatchesUpToAccepts(r, batchId) == batchId = 0

Rmat_getBatchesUpToEnter(r, a, batchId) ==
    [rmat |-> [r EXCEPT !.current_batch = batchId + 1,
                        !.next_timestamp = @ + a.batch_size],
     call |-> [op |-> "getBatchesUpTo", id |-> batchId, size |-> a.batch_size, i |-> 0,
               first_timestamp |-> r.next_timestamp, edges |-> << >>]]

\* variant: a discarded self-edge uses up a timestamp
RmatBatchStep_SelfEdgeTakesTimestamp(ra, g, c) ==
    LET n == next_edge(ra, g)
    IN  IF n.src = n.dst
        THEN [generator |-> n.generator,
              call |-> [c EXCEPT !.first_timestamp = @ + 1]]
        ELSE [generator |-> n.generator,
              call |-> [c EXCEPT
                  !.edges = Append(@, [src |-> n.src, dst |-> n.dst, weight |-> 1,
                                       timestamp |-> c.first_timestamp]),
                  !.first_timestamp = @ + 1,
                  !.i = @ + 1]]

\* variant: the loop body without the test for a self-edge
RmatBatchStep_KeepSelfEdges(ra, g, c) ==
    LET n == next_edge(ra, g)
    IN  [generator |-> n.generator,
         call |-> [c EXCEPT
             !.edges = Append(@, [src |-> n.src, dst |-> n.dst, weight |-> 1,
                                  timestamp |-> c.first_timestamp]),
             !.first_timestamp = @ + 1,
             !.i = @ + 1]]

\* One turn of the do-while in RmatBatch::RmatBatch: ask the generator for
\* an edge; a self-edge is discarded, any other edge becomes edges[i].
RmatBatchStep(ra, g, c) ==
    LET n == next_edge(ra, g)
    IN  IF n.src = n.dst
        THEN [generator |-> n.generator, call |-> c]
        ELSE [generator |-> n.generator,
              call |-> [c EXCEPT
                  !.edges = Append(@, [src |-> n.src, dst |-> n.dst, weight |-> 1,
                                       timestamp |-> c.first_timestamp]),
                  !.first_timestamp = @ + 1,
                  !.i = @ + 1]]

\* variant: the generator is left where it is
Rmat_reset_KeepGenerator(r) ==
    [r EXCEPT !.current_batch = 0, !.next_timestamp = 0]

Rmat_reset(r) ==
    [r EXCEPT !.current_batch = 0,
              !.next_timestamp = 0,
              !.generator = rmat_edge_generator(r.rmat_args)]

CreateRmatDataset ==
    /\ pc = "start"
    /\ \E a \in ValidArgs, ra \in RmatArgsSet :
        LET r == RmatDatasetCtor(a, ra)
        IN  /\ args' = a
            /\ kind' = "rmat"
            /\ pc' = r.pc
            /\ diag' = r.diag
            /\ rmat' = r.rmat
            /\ hist' = [HistIdle EXCEPT
                   !.initial = [current_batch |-> r.rmat.current_batch,
                                next_timestamp |-> r.rmat.next_timestamp,
                                generator |-> r.rmat.generator]]
    /\ call' = NoCall
    /\ ret' = NoRet
    /\ UNCHANGED << auxVars, dedup, gate, edges, batches, max_vertex_id, min_timestamp, max_timestamp >>

\* the ids a caller may ask for: in order, a repeat, a skip, a step backwards
RmatIds == 0..(MaxPassCalls + 1)

RmatGetBatch ==
    /\ pc = "ready" /\ kind = "rmat"
    /\ \E id \in RmatIds :
        IF Rmat_getBatchAccepts(rmat, id)
        THEN /\ hist.calls < MaxPassCalls
             /\ rmat' = Rmat_getBatchEnter(rmat, args, id).rmat
             /\ call' = Rmat_getBatchEnter(rmat, args, id).call
             /\ hist' = [hist EXCEPT !.accepted = @ + 1, !.calls = @ + 1]
             /\ pc' = "generating"
             /\ diag' = diag
        ELSE /\ call' = [NoCall EXCEPT !.op = "getBatch", !.id = id]
             /\ pc' = "fatal"
             /\ diag' = "Assertion `batchId == current_batch' failed"
             /\ UNCHANGED << rmat, hist >>
    /\ ret' = NoRet
    /\ UNCHANGED << auxVars, dedup, gate, kind, eldVars >>

RmatGetBatchesUpTo ==
    /\ pc = "ready" /\ kind = "rmat"
    /\ \E id \in RmatIds :
        IF Rmat_getBatchesUpToAccepts(rmat, id)
        THEN /\ hist.calls < MaxPassCalls
             /\ rmat' = Rmat_getBatchesUpToEnter(rmat, args, id).rmat
             /\ call' = Rmat_getBatchesUpToEnter(rmat, args, id).call
             /\ hist' = [hist EXCEPT !.calls = @ + 1]
             /\ pc' = "generating"
             /\ diag' = diag
        ELSE /\ call' = [NoCall EXCEPT !.op = "getBatchesUpTo", !.id = id]
             /\ pc' = "fatal"
             /\ diag' = "Assertion `batchId == 0' failed"
             /\ UNCHANGED << rmat, hist >>
    /\ ret' = NoRet
    /\ UNCHANGED << auxVars, dedup, gate, kind, eldVars >>

\* One turn of the constructor's loop; the turn that stores edges[size-1]
\* ends the loop and getBatch returns the batch.
RmatBatchNextEdge ==
    /\ pc = "generating"
    /\ LET st == RmatBatchStep(rmat.rmat_args, rmat.generator, call)
           entry == [op |-> st.call.op, id |-> st.call.id, edges |-> st.call.edges]
       IN  /\ rmat' = [rmat EXCEPT !.generator = st.generator]
           /\ call' = st.call
           /\ IF st.call.i = st.call.size
              THEN /\ pc' = "ready"
                   /\ ret' = [op |-> st.call.op, id |-> st.call.id, val |-> st.call.edges]
                   /\ hist' = [hist EXCEPT
                          !.cur = Append(@, entry),
                          !.first = IF hist.resets = 0 THEN Append(@, entry) ELSE @]
              ELSE UNCHANGED << pc, ret, hist >>
    /\ UNCHANGED << auxVars, dedup, gate, kind, diag, eldVars >>

RmatReset ==
    /\ pc = "ready" /\ kind = "rmat"
    /\ hist.resets < MaxResets
    /\ rmat' = Rmat_reset(rmat)
    /\ call' = [NoCall EXCEPT !.op = "reset"]
    /\ hist' = [hist EXCEPT !.accepted = 0, !.calls = 0, !.resets = @ + 1, !.cur = << >>]
    /\ ret' = NoRet
    /\ UNCHANGED << auxVars, dedup, gate, pc, kind, diag, eldVars >>

RmatGetTimestampForWindow ==
    /\ pc = "ready" /\ kind = "rmat"
    /\ \E id \in 0..(rmat.num_batches - 1) :
        ret' = [op |-> "getTimestampForWindow", id |-> id,
                val |-> Rmat_getTimestampForWindow(id)]
    /\ UNCHANGED << auxVars, dedup, gate, pc, kind, diag, eldVars, rmatVars >>

(***************************************************************************)
(* DeduplicatedBatch.                                                      *)
(***************************************************************************)
\* variant: timestamp ascending
EdgeLess_OldestFirst(a, b) ==
    IF a.src # b.src THEN a.src < b.src
    ELSE IF a.dst # b.dst THEN a.dst < b.dst
    ELSE a.timestamp < b.timestamp

\* operator<(const Edge&, const Edge&)
EdgeLess(a, b) ==
    IF a.src # b.src THEN a.src < b.src
    ELSE IF a.dst # b.dst THEN a.dst < b.dst
    ELSE a.timestamp > b.timestamp

\* the bijections of 1..n onto itself
Perms(n) == {f \in [1..n -> 1..n] : \A i, j \in 1..n : i # j => f[i] # f[j]}

\* std::sort(first, last) with operator<: some rearrangement of the range
\* in which no element is less than an element before it.  The order of
\* elements neither of which is less than the other is unspecified.
SortOutcomes(es) ==
    {q \in {[i \in 1..Len(es) |-> es[f[i]]] : f \in Perms(Len(es))} :
        \A i, j \in 1..Len(q) : i < j => ~EdgeLess(q[j], q[i])}

\* the binary predicate handed to std::unique_copy
SamePair(a, b) == a.src = b.src /\ a.dst = b.dst

\* std::unique_copy: copies the first element of every run of consecutive
\* elements the predicate holds equal.
RECURSIVE unique_copy(_)
unique_copy(es) ==
    IF Len(es) <= 1 THEN es
    ELSE LET front == unique_copy(SubSeq(es, 1, Len(es) - 1))
         IN  IF SamePair(front[Len(front)], es[Len(es)])
             THEN front
             ELSE Append(front, es[Len(es)])

\* the batches DeduplicatedBatch is built from: edges without self-edges
DedupVertices == {1, 2, 3}

BatchEdgeValues ==
    {e \in [src : DedupVertices, dst : DedupVertices, weight : {1, 2}, timestamp : {0, 1}] :
        e.src # e.dst}

DedupInit ==
    /\ gate = GateIdle
    /\ sort_mode = "UNSORTED" /\ run = RunIdle /\ cfg = CfgIdle /\ loader = LoaderIdle /\ graph = GraphIdle /\ mpi = MpiIdle
    /\ pc = "start" /\ kind = "none" /\ diag = "none"
    /\ args = [batch_size |-> 1, num_epochs |-> 1, window_size |-> [num |-> 1, den |-> 1]]
    /\ edges = << >> /\ batches = << >>
    /\ max_vertex_id = Unset /\ min_timestamp = Unset /\ max_timestamp = Unset
    /\ rmat = RmatIdle /\ call = NoCall /\ hist = HistIdle
    /\ ret = NoRet
    /\ \E b \in SeqsUpTo(BatchEdgeValues, MaxDedupLen) :
        dedup = [phase |-> "batch", batch |-> b, sorted_edges |-> << >>,
                 deduped_edges |-> << >>]

\* DeduplicatedBatch::DeduplicatedBatch(const Batch &batch)
DeduplicatedBatchCtor ==
    /\ dedup.phase = "batch"
    /\ \E sorted_edges \in SortOutcomes(dedup.batch) :
        dedup' = [dedup EXCEPT !.phase = "deduplicated",
                               !.sorted_edges = sorted_edges,
                               !.deduped_edges = unique_copy(sorted_edges)]
    /\ UNCHANGED << auxVars, gate, pc, kind, diag, eldVars, rmatVars, ret >>

DedupNext == DeduplicatedBatchCtor

SpecDedup == DedupInit /\ [][DedupNext]_vars
(***************************************************************************)
(* The orchestrator, run().                                                *)
(***************************************************************************)
\* enableAlgsForBatch for every (num_batches, num_epochs) run() can meet
EnabledBatches ==
    [nb \in 1..MaxRunBatches |->
        [ne \in 1..nb |-> {b \in 0..(nb - 1) : enableAlgsForBatch(nb, ne, b)}]]

\* enable_algs_for_batch(batch_id, num_batches, num_epochs): the gate of
\* enableAlgsForBatch with num_batches and num_epochs passed in
enable_algs_for_batch(batch_id, num_batches, num_epochs) ==
    batch_id \in EnabledBatches[num_batches][num_epochs]

\* the calls on the graph instance
GraphOps == {"construct", "destroy", "before_batch", "delete_edges_older_than",
             "insert_batch", "get_num_vertices", "get_num_edges",
             "get_high_degree_vertices", "update_alg"}

\* the configured lists of algorithms
AlgNameLists == { << >>, << "bfs" >>, << "bfs", "bc" >> }

\* the loop over args.alg_names: the region of an algorithm is named after it
RECURSIVE AlgOps(_)
AlgOps(alg_names) ==
    IF alg_names = << >> THEN << >>
    ELSE << "get_high_degree_vertices", "get_num_vertices", "get_num_edges",
            Head(alg_names), "update_alg" >>
         \o AlgOps(Tail(alg_names))

\* variant: the rollback precedes every repetition, the first included
RECURSIVE AlgTrialOps_RollbackFirst(_, _, _)
AlgTrialOps_RollbackFirst(alg_trial, num_alg_trials, alg_names) ==
    IF alg_trial >= num_alg_trials THEN << >>
    ELSE << "rollback" >> \o AlgOps(alg_names)
         \o AlgTrialOps_RollbackFirst(alg_trial + 1, num_alg_trials, alg_names)

\* the algorithm loop of one epoch
RECURSIVE AlgTrialOps(_, _, _)
AlgTrialOps(alg_trial, num_alg_trials, alg_names) ==
    IF alg_trial >= num_alg_trials THEN << >>
    ELSE (IF alg_trial # 0 THEN << "rollback" >> ELSE << >>)
         \o AlgOps(alg_names)
         \o AlgTrialOps(alg_trial + 1, num_alg_trials, alg_names)

\* variant: SNAPSHOT mode takes the incremental branch as well
RunBatchOps_AlwaysIncremental(mode, window_full, trigger, num_alg_trials, alg_names) ==
    << "get_preprocessed_batch", "getTimestampForWindow", "before_batch" >>
    \o (IF ~window_full
        THEN << "get_num_vertices", "get_num_edges", "delete_edges_older_than" >>
        ELSE << >>)
    \o << "get_num_vertices", "get_num_edges", "insert_batch" >>
    \o (IF trigger
        THEN AlgTrialOps(0, num_alg_trials, alg_names) \o << "dump", "next_epoch" >>
        ELSE << >>)

\* variant: the deletion follows the insertion
RunBatchOps_InsertFirst(mode, window_full, trigger, num_alg_trials, alg_names) ==
    (IF mode # "SNAPSHOT"
     THEN << "get_preprocessed_batch", "getTimestampForWindow", "before_batch" >>
          \o << "get_num_vertices", "get_num_edges", "insert_batch" >>
          \o (IF ~window_full
              THEN << "get_num_vertices", "get_num_edges", "delete_edges_older_than" >>
              ELSE << >>)
     ELSE IF trigger
          THEN << "destroy", "construct", "get_preprocessed_batch", "insert_batch" >>
          ELSE << >>)
    \o (IF trigger
        THEN AlgTrialOps(0, num_alg_trials, alg_names) \o << "dump", "next_epoch" >>
        ELSE << >>)

\* What one iteration of the batch loop calls, in order.
RunBatchOps(mode, window_full, trigger, num_alg_trials, alg_names) ==
    (IF mode # "SNAPSHOT"
     THEN << "get_preprocessed_batch", "getTimestampForWindow", "before_batch" >>
          \o (IF ~window_full
              THEN << "get_num_vertices", "get_num_edges", "delete_edges_older_than" >>
              ELSE << >>)
          \o << "get_num_vertices", "get_num_edges", "insert_batch" >>
     ELSE IF trigger
          THEN << "destroy", "construct", "get_preprocessed_batch", "insert_batch" >>
          ELSE << >>)
    \o (IF trigger
        THEN AlgTrialOps(0, num_alg_trials, alg_names) \o << "dump", "next_epoch" >>
        ELSE << >>)

RunInit ==
    /\ gate = GateIdle
    /\ pc = "start" /\ kind = "none" /\ diag = "none"
    /\ args = [batch_size |-> 1, num_epochs |-> 1, window_size |-> [num |-> 1, den |-> 1]]
    /\ edges = << >> /\ batches = << >>
    /\ max_vertex_id = Unset /\ min_timestamp = Unset /\ max_timestamp = Unset
    /\ rmat = RmatIdle /\ call = NoCall /\ hist = HistIdle
    /\ dedup = DedupIdle /\ cfg = CfgIdle /\ loader = LoaderIdle /\ graph = GraphIdle /\ mpi = MpiIdle
    /\ ret = NoRet
    /\ sort_mode \in SortModes
    /\ \E nb \in 1..MaxRunBatches, nt \in 1..MaxTrials, nat \in 0..MaxAlgTrials,
          wf \in BOOLEAN, names \in AlgNameLists :
        \E ne \in 1..nb :
            run = [RunIdle EXCEPT !.pc = "trials", !.num_batches = nb,
                                  !.num_epochs = ne, !.num_trials = nt,
                                  !.num_alg_trials = nat, !.window_full = wf,
                                  !.alg_names = names]

\* the head of the trial loop: a fresh graph, epoch = 0
RunBeginTrial ==
    /\ run.pc = "trials"
    /\ IF run.trial < run.num_trials
       THEN run' = [run EXCEPT !.pc = "batches", !.epoch = 0, !.batch_id = 0,
                               !.ops = << "construct" >>]
       ELSE run' = [run EXCEPT !.pc = "done", !.ops = << >>]
    /\ UNCHANGED << gate, pc, kind, diag, eldVars, rmatVars, dedup, sort_mode, cfg, loader, mpi, graph, ret >>

\* one iteration of the batch loop
RunBatch ==
    /\ run.pc = "batches"
    /\ run.batch_id < run.num_batches
    /\ LET trigger == enable_algs_for_batch(run.batch_id, run.num_batches, run.num_epochs)
           epoch == IF trigger THEN run.epoch + 1 ELSE run.epoch
       IN  run' = [run EXCEPT
               !.ops = RunBatchOps(sort_mode, run.window_full, trigger, run.num_alg_trials,
                                   run.alg_names),
               !.epoch = epoch,
               !.batch_id = IF epoch <= run.num_epochs THEN @ + 1 ELSE @,
               !.pc = IF epoch <= run.num_epochs THEN @ ELSE "fatal",
               !.diag = IF epoch <= run.num_epochs THEN @
                        ELSE "Assertion `epoch <= args.num_epochs' failed"]
    /\ UNCHANGED << gate, pc, kind, diag, eldVars, rmatVars, dedup, sort_mode, cfg, loader, mpi, graph, ret >>

\* the batch loop is over: assert(epoch == args.num_epochs), the graph
\* goes out of scope
RunEndTrial ==
    /\ run.pc = "batches"
    /\ run.batch_id = run.num_batches
    /\ IF run.epoch = run.num_epochs
       THEN run' = [run EXCEPT !.pc = "trials", !.trial = @ + 1, !.ops = << "destroy" >>]
       ELSE run' = [run EXCEPT !.pc = "fatal", !.ops = << >>,
                               !.diag = "Assertion `epoch == args.num_epochs' failed"]
    /\ UNCHANGED << gate, pc, kind, diag, eldVars, rmatVars, dedup, sort_mode, cfg, loader, mpi, graph, ret >>

RunNext ==
    \/ RunBeginTrial
    \/ RunBatch
    \/ RunEndTrial

SpecRun == RunInit /\ [][RunNext]_vars

(***************************************************************************)
(* Batch preprocessing: FilteredBatch and Dataset::getBatch.               *)
(***************************************************************************)
\* variant: edges at the threshold are skipped too
FilteredBatch_Strict(es, threshold) ==
    LET kept == {k \in 1..Len(es) : es[k].timestamp > threshold}
    IN  IF kept = {} THEN << >> ELSE SubSeq(es, SetMin(kept), Len(es))

\* FilteredBatch(batch, threshold): begin moves to the first edge with
\* timestamp >= threshold (to end if there is none)
FilteredBatch(es, threshold) ==
    LET kept == {k \in 1..Len(es) : es[k].timestamp >= threshold}
    IN  IF kept = {} THEN << >> ELSE SubSeq(es, SetMin(kept), Len(es))

\* what DeduplicatedBatch(batch) can hold, one value per sort outcome
DeduplicatedBatch(es) == {unique_copy(q) : q \in SortOutcomes(es)}

\* Dataset::getBatch(batchId): the batches it can return
\* variant: the cumulative snapshot is not filtered
Dataset_getBatchIn_SnapshotUnfiltered(mode, batchId) ==
    LET threshold == EdgeList_getTimestampForWindow(batchId)
        b == batches[batchId + 1]
    IN  CASE mode = "UNSORTED" -> {FilteredBatch(BatchEdges(b), threshold)}
          [] mode = "PRESORT" ->
                DeduplicatedBatch(FilteredBatch(BatchEdges(b), threshold))
          [] mode = "SNAPSHOT" ->
                LET cumulative_snapshot == [begin |-> 0, end |-> b.end]
                IN  DeduplicatedBatch(BatchEdges(cumulative_snapshot))

Dataset_getBatchIn(mode, batchId) ==
    LET threshold == EdgeList_getTimestampForWindow(batchId)
        b == batches[batchId + 1]
    IN  CASE mode = "UNSORTED" -> {FilteredBatch(BatchEdges(b), threshold)}
          [] mode = "PRESORT" ->
                DeduplicatedBatch(FilteredBatch(BatchEdges(b), threshold))
          [] mode = "SNAPSHOT" ->
                LET cumulative_snapshot == [begin |-> 0, end |-> b.end]
                IN  DeduplicatedBatch(FilteredBatch(BatchEdges(cumulative_snapshot),
                                                    threshold))

\* with args.sort_mode
Dataset_getBatch(batchId) == Dataset_getBatchIn(sort_mode, batchId)

PreInit ==
    /\ gate = GateIdle
    /\ sort_mode \in SortModes
    /\ DatasetIdle

DatasetGetBatch ==
    /\ pc = "ready" /\ kind = "edgelist"
    /\ \E id \in 0..(Len(batches) - 1) :
        \E b \in Dataset_getBatch(id) :
            ret' = [op |-> "Dataset::getBatch", id |-> id, val |-> b]
    /\ UNCHANGED << auxVars, dedup, gate, pc, kind, diag, eldVars, rmatVars >>

PreNext ==
    \/ CreateEdgeListDataset
    \/ DatasetGetBatch

SpecPre == PreInit /\ [][PreNext]_vars

(***************************************************************************)
(* Validation of the configuration: Args::validate, validate (C),          *)
(* RmatArgs::validate.                                                     *)
(***************************************************************************)
\* the integer options as given on the command line
OptionInts == {-1, 0, 1, 2}

\* --window-size as a double: -1/4, 0, 1/2, 1, 5/4
OptionWindowSizes == { [num |-> n, den |-> 4] : n \in {-1, 0, 2, 4, 5} }

\* Args after Args::parse; input_path is "" when --input-path was not given
ParsedArgs ==
    [num_epochs : OptionInts, input_path : {"", "edges.graph.el"},
     batch_size : OptionInts, window_size : OptionWindowSizes,
     num_trials : OptionInts, num_alg_trials : {0, 1}]

\* the RMAT probabilities in quarters: -1/4, 0, 1/4, 1/2, 1, 5/4
RmatQuarters == {-1, 0, 1, 2, 4, 5}

\* RmatArgs after RmatArgs::from_string
ParsedRmatArgs ==
    [a : RmatQuarters, b : RmatQuarters, c : RmatQuarters, d : RmatQuarters,
     num_edges : {-1, 0, 1}, num_vertices : {-1, 0, 1}]

\* Args::validate(): one line per violated constraint; Args::parse dies
\* when the result is not empty
Args_validate(a) ==
    (IF a.num_epochs < 1 THEN << "--num-epochs must be positive" >> ELSE << >>)
    \o (IF a.input_path = "" THEN << "--input-path cannot be empty" >> ELSE << >>)
    \o (IF a.batch_size < 1 THEN << "--batch-size must be positive" >> ELSE << >>)
    \o (IF a.window_size.num < 0 \/ a.window_size.num > a.window_size.den
        THEN << "--window-size must be in the range [0.0, 1.0]" >> ELSE << >>)
    \o (IF a.num_trials < 1 THEN << "--num-trials must be positive" >> ELSE << >>)

\* validate(args) of the C layer: the message of the first violated
\* constraint, then return false
dynograph_validate(a) ==
    IF a.num_epochs < 1 THEN << "--num-epochs must be positive" >>
    ELSE IF a.input_path = "" THEN << "--input-path cannot be empty" >>
    ELSE IF a.batch_size < 1 THEN << "--batch-size must be positive" >>
    ELSE IF a.window_size.num < 0 \/ a.window_size.num > a.window_size.den
         THEN << "--window-size must be in the range [0.0, 1.0]" >>
    ELSE IF a.num_trials < 1 THEN << "--num-trials must be positive" >>
    ELSE << >>

\* RmatArgs::validate(): the error string, "" when there is none
RmatArgs_validate(r) ==
    IF \/ r.a < 0 \/ r.b < 0 \/ r.c < 0 \/ r.d < 0
       \/ r.a > 4 \/ r.b > 4 \/ r.c > 4 \/ r.d > 4
       \/ r.a + r.b + r.c + r.d > 4
    THEN "Invalid arguments: RMAT parameters must be fall in the range [0, 1] and sum to 1"
    ELSE IF r.num_edges < 0 \/ r.num_vertices < 0
    THEN "Invalid arguments: RMAT graph must have a positive number of edges and vertices"
    ELSE ""

ValidateInit ==
    /\ gate = GateIdle
    /\ sort_mode = "UNSORTED"
    /\ pc = "start" /\ kind = "none" /\ diag = "none"
    /\ args = [batch_size |-> 1, num_epochs |-> 1, window_size |-> [num |-> 1, den |-> 1]]
    /\ edges = << >> /\ batches = << >>
    /\ max_vertex_id = Unset /\ min_timestamp = Unset /\ max_timestamp = Unset
    /\ rmat = RmatIdle /\ call = NoCall /\ hist = HistIdle
    /\ dedup = DedupIdle /\ run = RunIdle /\ loader = LoaderIdle /\ graph = GraphIdle /\ mpi = MpiIdle
    /\ ret = NoRet
    /\ \/ \E a \in ParsedArgs :
            cfg = [what |-> "Args", value |-> a, by |-> "none", fatal |-> FALSE,
                   messages |-> << >>]
       \/ \E r \in ParsedRmatArgs :
            cfg = [what |-> "RmatArgs", value |-> r, by |-> "none", fatal |-> FALSE,
                   messages |-> << >>]

\* Args::parse, from the call of validate on
ArgsValidate ==
    /\ cfg.what = "Args" /\ cfg.by = "none"
    /\ cfg' = [cfg EXCEPT !.by = "Args::validate",
                          !.messages = Args_validate(cfg.value),
                          !.fatal = Args_validate(cfg.value) # << >>]
    /\ UNCHANGED << gate, pc, kind, diag, eldVars, rmatVars, dedup, sort_mode, run,
                    loader, mpi, graph, ret >>

\* dynograph_args_parse, from the call of validate on
DynographValidate ==
    /\ cfg.what = "Args" /\ cfg.by = "none"
    /\ cfg' = [cfg EXCEPT !.by = "validate",
                          !.messages = dynograph_validate(cfg.value),
                          !.fatal = dynograph_validate(cfg.value) # << >>]
    /\ UNCHANGED << gate, pc, kind, diag, eldVars, rmatVars, dedup, sort_mode, run,
                    loader, mpi, graph, ret >>

RmatArgsValidate ==
    /\ cfg.what = "RmatArgs" /\ cfg.by = "none"
    /\ cfg' = [cfg EXCEPT !.by = "RmatArgs::validate",
                          !.messages = << RmatArgs_validate(cfg.value) >>,
                          !.fatal = RmatArgs_validate(cfg.value) # ""]
    /\ UNCHANGED << gate, pc, kind, diag, eldVars, rmatVars, dedup, sort_mode, run,
                    loader, mpi, graph, ret >>

ValidateNext ==
    \/ ArgsValidate
    \/ DynographValidate
    \/ RmatArgsValidate

SpecValidate == ValidateInit /\ [][ValidateNext]_vars

(***************************************************************************)
(* The edge file loaders.  A text file is the sequence of its tokens: an   *)
(* integer, a word that is no integer, or a newline; blanks between the    *)
(* tokens of a line are implied.  A binary file is its whole 32-byte       *)
(* records followed by tail_bytes further bytes.                           *)
(***************************************************************************)
\* sizeof(Edge): four int64_t fields
EdgeBytes == 32

\* the value fscanf returns for an input failure before the first conversion
EOF == -1

IntTok(v) == [t |-> "int", v |-> v]
WordTok == [t |-> "word", v |-> 0]
NewlineTok == [t |-> "nl", v |-> 0]

\* the lines a text file is made of: two well-formed records, a line that is
\* no number, and a line with too few fields
TextLines == { << IntTok(1), IntTok(2), IntTok(1), IntTok(0) >>,
               << IntTok(2), IntTok(1), IntTok(1), IntTok(1) >>,
               << WordTok >>,
               << IntTok(1), IntTok(2) >> }

\* what follows the last newline: nothing, a whole record, half a record
TextTails == { << >>,
               << IntTok(1), IntTok(2), IntTok(1), IntTok(2) >>,
               << IntTok(1), IntTok(2) >> }

RECURSIVE JoinLines(_)
JoinLines(lines) ==
    IF lines = << >> THEN << >>
    ELSE Head(lines) \o << NewlineTok >> \o JoinLines(Tail(lines))

TextFiles ==
    { [tokens |-> JoinLines(ls) \o tl, records |-> << >>, tail_bytes |-> 0] :
        ls \in UNION { [1..n -> TextLines] : n \in 0..MaxLines }, tl \in TextTails }

\* the records of a binary file
BinaryEdges == { [src |-> 1, dst |-> 2, weight |-> 1, timestamp |-> 0],
                 [src |-> 2, dst |-> 1, weight |-> 1, timestamp |-> 1] }

\* the bytes after the last whole record
TailBytes == {0, 1, EdgeBytes - 1}

BinaryFiles ==
    { [tokens |-> << >>, records |-> rs, tail_bytes |-> tb] :
        rs \in UNION { [1..n -> BinaryEdges] : n \in 0..MaxLines }, tb \in TailBytes }

\* st.st_size
st_size(file) == EdgeBytes * Len(file.records) + file.tail_bytes

\* the value-initialized Edge that resize() appends
ZeroEdge == [src |-> 0, dst |-> 0, weight |-> 0, timestamp |-> 0]

\* edges.resize(numEdges) on the empty vector
resize(numEdges) == [i \in 1..numEdges |-> ZeroEdge]

\* the number of '\n' characters of the file
count_lines(file) == Cardinality({ i \in 1..Len(file.tokens) : file.tokens[i].t = "nl" })

\* fread(&edges[0], sizeof(Edge), numEdges, fp): the whole records read
fread(file, numEdges) ==
    LET available == st_size(file) \div EdgeBytes
        rc == IF numEdges <= available THEN numEdges ELSE available
    IN  [rc |-> rc, records |-> SubSeq(file.records, 1, rc)]

\* white space in the input, newlines included, is skipped before every %ld
\* and by the "\n" that ends the format
RECURSIVE SkipWhiteSpace(_, _)
SkipWhiteSpace(tokens, pos) ==
    IF pos <= Len(tokens) /\ tokens[pos].t = "nl"
        THEN SkipWhiteSpace(tokens, pos + 1)
    ELSE pos

\* the conversions of one fscanf("%ld %ld %ld %ld\n") call from position pos
RECURSIVE ScanFields(_, _, _)
ScanFields(tokens, pos, got) ==
    LET p == SkipWhiteSpace(tokens, pos)
    IN  IF Len(got) = 4 THEN [vals |-> got, pos |-> p, input_failure |-> FALSE]
        ELSE IF p > Len(tokens) THEN [vals |-> got, pos |-> p, input_failure |-> TRUE]
        ELSE IF tokens[p].t = "int"
            THEN ScanFields(tokens, p + 1, Append(got, tokens[p].v))
        ELSE [vals |-> got, pos |-> p, input_failure |-> FALSE]

\* fscanf: the fields converted, the new read position and the return
\* value: EOF when the input ends before the first conversion, else the
\* number of fields converted (a word that is no integer stays unread)
fscanf(tokens, pos) ==
    LET r == ScanFields(tokens, pos, << >>)
    IN  [rc |-> IF r.vals = << >> /\ r.input_failure THEN EOF ELSE Len(r.vals),
         vals |-> r.vals, pos |-> r.pos]

\* the fields fscanf converted are stored through &e->src, &e->dst,
\* &e->weight, &e->timestamp; the others keep their value
StoreFields(edge, vals) ==
    [src |-> IF Len(vals) >= 1 THEN vals[1] ELSE edge.src,
     dst |-> IF Len(vals) >= 2 THEN vals[2] ELSE edge.dst,
     weight |-> IF Len(vals) >= 3 THEN vals[3] ELSE edge.weight,
     timestamp |-> IF Len(vals) >= 4 THEN vals[4] ELSE edge.timestamp]

LoadInit ==
    /\ gate = GateIdle
    /\ sort_mode = "UNSORTED"
    /\ pc = "start" /\ kind = "none" /\ diag = "none"
    /\ args = [batch_size |-> 1, num_epochs |-> 1, window_size |-> [num |-> 1, den |-> 1]]
    /\ edges = << >> /\ batches = << >>
    /\ max_vertex_id = Unset /\ min_timestamp = Unset /\ max_timestamp = Unset
    /\ rmat = RmatIdle /\ call = NoCall /\ hist = HistIdle
    /\ dedup = DedupIdle /\ run = RunIdle /\ cfg = CfgIdle /\ mpi = MpiIdle /\ graph = GraphIdle
    /\ ret = NoRet
    /\ \/ \E f \in TextFiles :
            loader = [LoaderIdle EXCEPT !.format = "text", !.file = f]
       \/ \E f \in BinaryFiles :
            loader = [LoaderIdle EXCEPT !.format = "binary", !.file = f]

\* loadEdgesBinary, for a file that exists
LoadEdgesBinary ==
    /\ loader.pc = "idle" /\ loader.format = "binary"
    /\ LET numEdges == st_size(loader.file) \div EdgeBytes
           r == fread(loader.file, numEdges)
       IN  loader' = IF r.rc # numEdges
                         THEN [loader EXCEPT !.pc = "fatal", !.numEdges = numEdges,
                                             !.rc = r.rc, !.edges = resize(numEdges),
                                             !.diag = "Failed to load graph"]
                     ELSE [loader EXCEPT !.pc = "loaded", !.numEdges = numEdges,
                                         !.rc = r.rc, !.edges = r.records,
                                         !.written = 0..(numEdges - 1)]
    /\ UNCHANGED << gate, pc, kind, diag, eldVars, rmatVars, dedup, sort_mode, run,
                    cfg, mpi, graph, ret >>

\* loadEdgesAscii up to the first test of the loop: count_lines, resize,
\* fopen, rc = 0, e = &edges[0]
LoadEdgesAscii ==
    /\ loader.pc = "idle" /\ loader.format = "text"
    /\ LET numEdges == count_lines(loader.file)
       IN  loader' = [loader EXCEPT !.pc = "scanning", !.numEdges = numEdges,
                                    !.edges = resize(numEdges), !.pos = 1,
                                    !.e = 0, !.rc = 0]
    /\ UNCHANGED << gate, pc, kind, diag, eldVars, rmatVars, dedup, sort_mode, run,
                    cfg, mpi, graph, ret >>

\* one turn of the loop of loadEdgesAscii: the fscanf call, ++e and the test
\* rc != EOF.  A store through e when e is past the last element of edges is
\* undefined: the process goes on with memory outside the array overwritten,
\* or it is killed.
LoadEdgesAsciiScan ==
    /\ loader.pc = "scanning" /\ loader.e < MaxScanCalls
    /\ LET r == fscanf(loader.file.tokens, loader.pos)
           stores == r.vals # << >>
           in_bounds == loader.e < loader.numEdges
       IN  \E outcome \in IF stores /\ ~in_bounds THEN {"continues", "killed"}
                          ELSE {"continues"} :
             loader' =
               IF outcome = "killed"
                   THEN [loader EXCEPT !.pc = "killed", !.rc = r.rc, !.pos = r.pos,
                                       !.written = @ \cup {loader.e},
                                       !.diag = "Segmentation fault"]
               ELSE [loader EXCEPT
                       !.pc = IF r.rc = EOF THEN "loaded" ELSE "scanning",
                       !.rc = r.rc, !.pos = r.pos, !.e = @ + 1,
                       !.edges = IF stores /\ in_bounds
                                     THEN [@ EXCEPT ![loader.e + 1] = StoreFields(@, r.vals)]
                                 ELSE @,
                       !.written = IF stores THEN @ \cup {loader.e} ELSE @]
    /\ UNCHANGED << gate, pc, kind, diag, eldVars, rmatVars, dedup, sort_mode, run,
                    cfg, mpi, graph, ret >>

LoadNext == LoadEdgesBinary \/ LoadEdgesAscii \/ LoadEdgesAsciiScan

SpecLoad == LoadInit /\ [][LoadNext]_vars

(***************************************************************************)
(* The distribution of the edges in the MPI build of Dataset::Dataset.     *)
(* Rank 0 holds all_edges; an edge is named by its position in all_edges.  *)
(* Ranks are 0..comm_size-1; sequences indexed by rank hold rank r at      *)
(* index r + 1.                                                            *)
(***************************************************************************)
\* variant: the remainder goes to the highest ranks
EdgesPerSlice_RemainderLast(edges_per_batch, comm_size) ==
    [k \in 1..comm_size |->
        LET i == k - 1
            slice_size == edges_per_batch \div comm_size
        IN  IF i >= comm_size - (edges_per_batch % comm_size) THEN slice_size + 1
            ELSE slice_size]

\* edges_per_slice as the loop on rank 0 fills it
EdgesPerSlice(edges_per_batch, comm_size) ==
    [k \in 1..comm_size |->
        LET i == k - 1
            slice_size == edges_per_batch \div comm_size
        IN  IF i < edges_per_batch % comm_size THEN slice_size + 1 ELSE slice_size]

\* std::partial_sum(first, last, d_first) into a valarray of comm_size + 1
\* zeros: the running sums in the first comm_size elements
RECURSIVE SumUpTo(_, _)
SumUpTo(s, k) == IF k = 0 THEN 0 ELSE s[k] + SumUpTo(s, k - 1)

partial_sum(s) == [k \in 1..(Len(s) + 1) |-> IF k <= Len(s) THEN SumUpTo(s, k) ELSE 0]

\* valarray::shift(-1): element I of the result is element I - 1 of the
\* operand, and zero where there is none
valarray_shift(v) == [k \in 1..Len(v) |-> IF k - 1 >= 1 THEN v[k - 1] ELSE 0]

MpiInit ==
    /\ gate = GateIdle
    /\ sort_mode = "UNSORTED"
    /\ pc = "start" /\ kind = "none" /\ diag = "none"
    /\ args = [batch_size |-> 1, num_epochs |-> 1, window_size |-> [num |-> 1, den |-> 1]]
    /\ edges = << >> /\ batches = << >>
    /\ max_vertex_id = Unset /\ min_timestamp = Unset /\ max_timestamp = Unset
    /\ rmat = RmatIdle /\ call = NoCall /\ hist = HistIdle
    /\ dedup = DedupIdle /\ run = RunIdle /\ cfg = CfgIdle /\ loader = LoaderIdle /\ graph = GraphIdle
    /\ ret = NoRet
    /\ \E P \in 1..MaxRanks, n \in 1..MaxMpiEdges :
         \E nb \in 1..n :
            mpi = [MpiIdle EXCEPT !.comm_size = P, !.num_batches = nb,
                                  !.all_edges = [k \in 1..n |-> k]]

\* from the move of the edges out of rank 0's member to the resize of the
\* local storage: edges_per_batch, edges_per_slice, displacements
MpiSlice ==
    /\ mpi.pc = "idle"
    /\ LET edges_per_batch == Len(mpi.all_edges) \div mpi.num_batches
           edges_per_slice == EdgesPerSlice(edges_per_batch, mpi.comm_size)
       IN  mpi' = [mpi EXCEPT
                     !.pc = "scattering",
                     !.edges_per_batch = edges_per_batch,
                     !.edges_per_slice = edges_per_slice,
                     !.displacements = valarray_shift(partial_sum(edges_per_slice)),
                     !.batch_id = 0,
                     !.local = [k \in 1..mpi.comm_size |-> << >>]]
    /\ UNCHANGED << gate, pc, kind, diag, eldVars, rmatVars, dedup, sort_mode, run,
                    cfg, loader, graph, ret >>

\* one turn of the batch loop: MPI_Scatterv hands rank r the
\* edges_per_slice[r] edges at displacements[r], then the displacements move
\* on by edges_per_batch
MpiScatterv ==
    /\ mpi.pc = "scattering" /\ mpi.batch_id < mpi.num_batches
    /\ mpi' = [mpi EXCEPT
                 !.local = [k \in 1..mpi.comm_size |->
                              @[k] \o SubSeq(mpi.all_edges, mpi.displacements[k] + 1,
                                             mpi.displacements[k] + mpi.edges_per_slice[k])],
                 !.displacements = [k \in 1..Len(@) |-> @[k] + mpi.edges_per_batch],
                 !.batch_id = @ + 1]
    /\ UNCHANGED << gate, pc, kind, diag, eldVars, rmatVars, dedup, sort_mode, run,
                    cfg, loader, graph, ret >>

\* after the loop the MPI build stops: batch_size was not recalculated
MpiDie ==
    /\ mpi.pc = "scattering" /\ mpi.batch_id = mpi.num_batches
    /\ mpi' = [mpi EXCEPT !.pc = "fatal", !.diag = "FIXME: Need to recalculate batch size"]
    /\ UNCHANGED << gate, pc, kind, diag, eldVars, rmatVars, dedup, sort_mode, run,
                    cfg, loader, graph, ret >>

MpiNext == MpiSlice \/ MpiScatterv \/ MpiDie

SpecMpi == MpiInit /\ [][MpiNext]_vars

(***************************************************************************)
(* run() over a generator-backed dataset: the batch loop asks the          *)
(* RmatDataset for its batches.  get_preprocessed_batch is declared but    *)
(* not defined in the sources; it asks for getBatch(batchId) in UNSORTED   *)
(* and PRESORT mode and for getBatchesUpTo(batchId) in SNAPSHOT mode.      *)
(***************************************************************************)
\* the generator can emit an edge that is no self-edge
EmitsNonSelfEdge(ra) ==
    \E k \in 1..Len(ra.stream) : ra.stream[k].src # ra.stream[k].dst

\* RmatBatch::RmatBatch from its first turn to its return, for a generator
\* that can emit an edge that is no self-edge
RECURSIVE RmatBatchRun(_, _, _)
RmatBatchRun(ra, g, c) ==
    IF c.i = c.size THEN [generator |-> g, call |-> c]
    ELSE LET st == RmatBatchStep(ra, g, c)
         IN  RmatBatchRun(ra, st.generator, st.call)

\* get_preprocessed_batch(batchId, dataset, sort_mode): the member of the
\* dataset it asks for the edges
get_preprocessed_batch_asks(mode) ==
    IF mode = "SNAPSHOT" THEN "getBatchesUpTo" ELSE "getBatch"

RunRmatInit ==
    /\ gate = GateIdle
    /\ sort_mode \in SortModes
    /\ DatasetIdle

\* run() from create_dataset to the head of the trial loop
RunRmatStart ==
    /\ pc = "ready" /\ kind = "rmat" /\ run.pc = "idle"
    /\ \E nt \in 1..MaxTrials :
         run' = [RunIdle EXCEPT
                   !.pc = "trials", !.num_batches = rmat.num_batches,
                   !.num_epochs = args.num_epochs, !.num_trials = nt,
                   !.num_alg_trials = 1, !.alg_names = << "bfs" >>,
                   !.window_full = (args.window_size.num = args.window_size.den)]
    /\ UNCHANGED << gate, pc, kind, diag, eldVars, rmatVars, dedup, sort_mode, cfg,
                    loader, mpi, graph, ret >>

\* one iteration of the batch loop, the request to the RmatDataset and the
\* RmatBatch constructor included
RunRmatBatch ==
    /\ run.pc = "batches" /\ run.batch_id < run.num_batches
    /\ pc = "ready" /\ kind = "rmat"
    /\ LET id == run.batch_id
           trigger == enable_algs_for_batch(id, run.num_batches, run.num_epochs)
           asks == sort_mode # "SNAPSHOT" \/ trigger
           op == get_preprocessed_batch_asks(sort_mode)
           accepts == IF op = "getBatchesUpTo" THEN Rmat_getBatchesUpToAccepts(rmat, id)
                      ELSE Rmat_getBatchAccepts(rmat, id)
           enter == IF op = "getBatchesUpTo" THEN Rmat_getBatchesUpToEnter(rmat, args, id)
                    ELSE Rmat_getBatchEnter(rmat, args, id)
           before == IF sort_mode = "SNAPSHOT" THEN << "destroy", "construct" >> ELSE << >>
           epoch == IF trigger THEN run.epoch + 1 ELSE run.epoch
           after == [run EXCEPT
               !.ops = RunBatchOps(sort_mode, run.window_full, trigger, run.num_alg_trials,
                                   run.alg_names),
               !.epoch = epoch,
               !.batch_id = IF epoch <= run.num_epochs THEN @ + 1 ELSE @,
               !.pc = IF epoch <= run.num_epochs THEN @ ELSE "fatal",
               !.diag = IF epoch <= run.num_epochs THEN @
                        ELSE "Assertion `epoch <= args.num_epochs' failed"]
       IN  IF ~asks
               THEN /\ run' = after
                    /\ UNCHANGED << pc, diag, rmat, call, ret >>
           ELSE IF ~accepts
               THEN /\ run' = [run EXCEPT !.pc = "fatal",
                                          !.ops = before \o << "get_preprocessed_batch" >>]
                    /\ call' = [NoCall EXCEPT !.op = op, !.id = id]
                    /\ pc' = "fatal"
                    /\ diag' = IF op = "getBatchesUpTo"
                                   THEN "Assertion `batchId == 0' failed"
                               ELSE "Assertion `batchId == current_batch' failed"
                    /\ UNCHANGED << rmat, ret >>
           ELSE IF ~EmitsNonSelfEdge(rmat.rmat_args)
               THEN \* the do-while of RmatBatch::RmatBatch never ends
                    /\ run' = [run EXCEPT !.pc = "hung",
                                          !.ops = before \o << "get_preprocessed_batch" >>]
                    /\ rmat' = enter.rmat
                    /\ call' = enter.call
                    /\ pc' = "generating"
                    /\ UNCHANGED << diag, ret >>
           ELSE LET done == RmatBatchRun(rmat.rmat_args, enter.rmat.generator, enter.call)
                IN  /\ run' = after
                    /\ rmat' = [enter.rmat EXCEPT !.generator = done.generator]
                    /\ call' = done.call
                    /\ ret' = [op |-> op, id |-> id, val |-> done.call.edges]
                    /\ UNCHANGED << pc, diag >>
    /\ UNCHANGED << gate, kind, eldVars, hist, dedup, sort_mode, cfg, loader, mpi,
                    graph >>

RunRmatNext ==
    \/ CreateRmatDataset
    \/ RunRmatStart
    \/ RunBeginTrial
    \/ RunRmatBatch
    \/ RunEndTrial

SpecRunRmat == RunRmatInit /\ [][RunRmatNext]_vars

(***************************************************************************)
(* The content of the graph instance over an EdgeListDataset.  The engine  *)
(* is pluggable; it is taken as a map from (src, dst) to a timestamp,      *)
(* held as a set of entries with one entry per (src, dst).  The batch loop *)
(* of run() is followed twice over the same dataset: in the incremental    *)
(* mode in sort_mode, and in SNAPSHOT mode.                                *)
(***************************************************************************)
EntryOf(e) == [src |-> e.src, dst |-> e.dst, timestamp |-> e.timestamp]

\* insert_batch(batch): every edge of the batch, in order, is inserted or
\* replaces the entry of its (src, dst)
RECURSIVE insert_batch(_, _)
insert_batch(g, es) ==
    IF es = << >> THEN g
    ELSE LET e == Head(es)
         IN  insert_batch({x \in g : ~(x.src = e.src /\ x.dst = e.dst)} \cup {EntryOf(e)},
                          Tail(es))

\* delete_edges_older_than(threshold)
delete_edges_older_than(g, threshold) == {x \in g : x.timestamp >= threshold}

GraphInit ==
    /\ gate = GateIdle
    /\ sort_mode \in {"UNSORTED", "PRESORT"}
    /\ DatasetIdle

\* one iteration of the batch loop, in the incremental mode and in
\* SNAPSHOT mode
GraphBatch ==
    /\ pc = "ready" /\ kind = "edgelist"
    /\ graph.batch_id < Len(batches)
    /\ LET batch_id == graph.batch_id
           threshold == EdgeList_getTimestampForWindow(batch_id)
           trigger == enable_algs_for_batch(batch_id, Len(batches), args.num_epochs)
           windowed == args.window_size.num # args.window_size.den
       IN  \E batch \in Dataset_getBatchIn(sort_mode, batch_id),
              snapshot \in Dataset_getBatchIn("SNAPSHOT", batch_id) :
             graph' = [pc |-> "batches",
                       batch_id |-> batch_id + 1,
                       inc |-> insert_batch(IF windowed
                                                THEN delete_edges_older_than(graph.inc,
                                                                             threshold)
                                            ELSE graph.inc,
                                            batch),
                       snap |-> IF trigger THEN insert_batch({}, snapshot) ELSE graph.snap,
                       fresh |-> trigger]
    /\ UNCHANGED << gate, pc, kind, diag, eldVars, rmatVars, dedup, sort_mode, run,
                    cfg, loader, mpi, ret >>

GraphNext == CreateEdgeListDataset \/ GraphBatch

SpecGraph == GraphInit /\ [][GraphNext]_vars






Init ==
    /\ gate = GateIdle
    /\ sort_mode = "UNSORTED"
    /\ DatasetIdle

Next ==
    \/ CreateEdgeListDataset
    \/ EdgeListGetBatch
    \/ EdgeListGetTimestampForWindow
    \/ CreateRmatDataset
    \/ RmatGetBatch
    \/ RmatGetBatchesUpTo
    \/ RmatBatchNextEdge
    \/ RmatReset
    \/ RmatGetTimestampForWindow

Spec == Init /\ [][Next]_vars

(***************************************************************************)
(* Properties.                                                             *)
(***************************************************************************)
PairOf(e) == << e.src, e.dst >>

\* C1: for every num_batches >= 1 and 1 <= num_epochs <= num_batches, a
\* full pass over the batch ids 0..num_batches-1 finds enableAlgsForBatch
\* true for exactly num_epochs ids, the last id num_batches-1 among them.
C1_ExactlyNumEpochsTriggers ==
    (gate.num_batches > 0 /\ gate.batch_id = gate.num_batches) =>
        /\ Cardinality(gate.enabled) = gate.num_epochs
        /\ (gate.num_batches - 1) \in gate.enabled

\* C2: a constructed EdgeListDataset holds floor(num_edges / batch_size)
\* batches; batch i is the run edges[i*batch_size .. (i+1)*batch_size - 1],
\* so batches do not overlap, each has batch_size edges, and the trailing
\* num_edges mod batch_size edges are in no batch; getBatch(i) returns
\* that run.
C2_BatchSlicing ==
    (kind = "edgelist" /\ pc = "ready") =>
        LET bs == args.batch_size
            n == Len(edges)
            offsets(b) == b.begin .. (b.end - 1)
        IN  /\ Len(batches) = n \div bs
            /\ \A i \in 1..Len(batches) :
                /\ offsets(batches[i]) = ((i - 1) * bs) .. (i * bs - 1)
                /\ Len(BatchEdges(batches[i])) = bs
            /\ \A i, j \in 1..Len(batches) :
                i # j => offsets(batches[i]) \cap offsets(batches[j]) = {}
            /\ \A k \in (n - (n % bs)) .. (n - 1) :
                \A i \in 1..Len(batches) : k \notin offsets(batches[i])
            /\ ret.op = "getBatch" =>
                ret.val = [k \in 1..bs |-> edges[ret.id * bs + k]]

C2_Witness ==
    /\ kind = "edgelist" /\ pc = "ready"
    /\ ret.op = "getBatch"
    /\ Len(edges) % args.batch_size # 0

\* C3: Deduplicated(batch) holds exactly one edge for each (src,dst) pair
\* of the input and no other edge; the survivor is an input edge of that
\* pair with the pair's largest timestamp, carrying its own weight; the
\* output is sorted by src ascending, then dst ascending.
C3_Deduplicated ==
    dedup.phase = "deduplicated" =>
        LET in == dedup.batch
            out == dedup.deduped_edges
        IN  /\ {PairOf(out[i]) : i \in 1..Len(out)} = {PairOf(in[k]) : k \in 1..Len(in)}
            /\ \A i, j \in 1..Len(out) : i # j => PairOf(out[i]) # PairOf(out[j])
            /\ \A i \in 1..Len(out) :
                /\ \E k \in 1..Len(in) : in[k] = out[i]
                /\ \A k \in 1..Len(in) :
                    PairOf(in[k]) = PairOf(out[i]) => in[k].timestamp <= out[i].timestamp
            /\ \A i \in 1..(Len(out) - 1) :
                \/ out[i].src < out[i + 1].src
                \/ out[i].src = out[i + 1].src /\ out[i].dst < out[i + 1].dst

C3_Witness ==
    /\ dedup.phase = "deduplicated"
    /\ Len(dedup.deduped_edges) = 2
    /\ \E i, j \in 1..Len(dedup.batch) :
        /\ i < j
        /\ PairOf(dedup.batch[i]) = PairOf(dedup.batch[j])
        /\ dedup.batch[i].timestamp < dedup.batch[j].timestamp
        /\ dedup.batch[i].weight # dedup.batch[j].weight

\* C4: an edge sequence in which some edge has a smaller timestamp than
\* the edge before it ends the construction in the fatal state with a
\* diagnostic and no batches; a sequence non-decreasing by timestamp is
\* not rejected as unsorted.
C4_UnsortedIsFatal ==
    kind = "edgelist" =>
        IF \E i \in 1..(Len(edges) - 1) : edges[i + 1].timestamp < edges[i].timestamp
        THEN pc = "fatal" /\ diag # "none" /\ batches = << >>
        ELSE diag # "edges not sorted by timestamp"

C4_Witness ==
    /\ kind = "edgelist" /\ pc = "fatal"
    /\ diag = "edges not sorted by timestamp"

\* C5: an edge sequence with an edge src == dst ends the construction in
\* the fatal state; no batch a constructed EdgeListDataset returns holds
\* an edge with src == dst.
C5_SelfEdgeIsFatal ==
    kind = "edgelist" =>
        /\ (\E i \in 1..Len(edges) : edges[i].src = edges[i].dst) =>
               pc = "fatal" /\ diag # "none"
        /\ ret.op = "getBatch" =>
               \A k \in 1..Len(ret.val) : ret.val[k].src # ret.val[k].dst

C5_Witness ==
    /\ kind = "edgelist" /\ pc = "fatal"
    /\ diag = "no self-edges allowed"
    /\ edges[1].src # edges[1].dst

\* C6: with window_size = 1.0 getTimestampForWindow(b) returns the
\* smallest timestamp of the dataset for every batch id: the smallest
\* timestamp of the loaded edges (EdgeListDataset), 0 (RmatDataset).
C6_FullWindow ==
    (ret.op = "getTimestampForWindow" /\ args.window_size.num = args.window_size.den) =>
        IF kind = "edgelist"
        THEN ret.val = SetMin({edges[i].timestamp : i \in 1..Len(edges)})
        ELSE ret.val = 0

C6_Witness ==
    /\ kind = "edgelist"
    /\ ret.op = "getTimestampForWindow"
    /\ args.window_size.num = args.window_size.den
    /\ edges[1].timestamp > 0
    /\ edges[batches[ret.id + 1].end].timestamp > edges[1].timestamp

\* C7: for an EdgeListDataset, getTimestampForWindow(b) =
\* max(min_timestamp, t_last(b) - floor(window_size * (max_timestamp -
\* min_timestamp))), t_last(b) the timestamp of the last edge of batch b,
\* min/max_timestamp the timestamps of the first and last loaded edge.
C7_WindowFormula ==
    (kind = "edgelist" /\ ret.op = "getTimestampForWindow") =>
        LET first_ts == edges[1].timestamp
            last_ts == edges[Len(edges)].timestamp
            t_last == edges[(ret.id + 1) * args.batch_size].timestamp
            scaled == args.window_size.num * (last_ts - first_ts)
            floor == (scaled - (scaled % args.window_size.den)) \div args.window_size.den
        IN  ret.val = Max2(first_ts, t_last - floor)

C7_Witness ==
    /\ kind = "edgelist" /\ ret.op = "getTimestampForWindow"
    /\ (args.window_size.num * (max_timestamp - min_timestamp)) % args.window_size.den # 0
    /\ ret.val > min_timestamp

\* C8: every edge of every batch the RmatDataset produces has src # dst,
\* whatever pairs the generator emits.
C8_NoSelfEdges ==
    kind = "rmat" =>
        /\ \A k \in 1..Len(call.edges) : call.edges[k].src # call.edges[k].dst
        /\ ret.op \in {"getBatch", "getBatchesUpTo"} =>
               \A k \in 1..Len(ret.val) : ret.val[k].src # ret.val[k].dst

C8_Witness ==
    /\ kind = "rmat" /\ ret.op = "getBatch"
    /\ hist.resets = 0 /\ hist.calls = 1
    /\ rmat.rmat_args.stream[1].src = rmat.rmat_args.stream[1].dst
    /\ Len(ret.val) = 2

\* C9: an RmatDataset accepts getBatch(id) only when id is the number of
\* getBatch calls accepted since construction or the last reset; any other
\* id ends in the fatal state without producing a batch.
C9_InOrderOnly ==
    (kind = "rmat" /\ call.op = "getBatch") =>
        IF pc = "fatal"
        THEN call.id # hist.accepted /\ call.edges = << >> /\ ret = NoRet
        ELSE call.id = hist.accepted - 1

\* C10: after reset() the batch counter, the next timestamp and the
\* generator state are what they were right after construction, and the
\* batches getBatch(0), getBatch(1), ... return after a reset are those
\* they returned after construction.
C10_ResetReplays ==
    kind = "rmat" =>
        /\ call.op = "reset" =>
               /\ rmat.current_batch = hist.initial.current_batch
               /\ rmat.next_timestamp = hist.initial.next_timestamp
               /\ rmat.generator = hist.initial.generator
        /\ hist.resets > 0 =>
               \A k \in 1..Len(hist.cur) :
                   (/\ k <= Len(hist.first)
                    /\ \A j \in 1..k : hist.first[j].op = "getBatch"
                                       /\ hist.cur[j].op = "getBatch")
                   => hist.cur[k] = hist.first[k]

C10_Witness ==
    /\ kind = "rmat" /\ hist.resets > 0
    /\ Len(hist.cur) = 2 /\ Len(hist.first) = 2
    /\ \A j \in 1..2 : hist.first[j].op = "getBatch" /\ hist.cur[j].op = "getBatch"
    /\ hist.cur[1].edges # hist.cur[2].edges
    /\ \E k \in 1..Len(rmat.rmat_args.stream) :
        rmat.rmat_args.stream[k].src = rmat.rmat_args.stream[k].dst

\* C11: in every trial of run(), whatever the sort mode, the epoch
\* counter never exceeds num_epochs while batches are processed and equals
\* num_epochs when the last batch of the trial has been processed.
C11_EpochsPerTrial ==
    run.pc # "idle" =>
        /\ run.epoch <= run.num_epochs
        /\ (run.pc = "batches" /\ run.batch_id = run.num_batches) =>
               run.epoch = run.num_epochs

\* the calls of the last iteration that go to the graph instance
RunGraphOps == SelectSeq(run.ops, LAMBDA op : op \in GraphOps)

\* C12: in SNAPSHOT mode run() never calls before_batch or
\* delete_edges_older_than; every insert_batch directly follows the
\* destruction of the graph and the construction of a new one; a batch
\* that triggers no epoch causes no call on the graph.
C12_SnapshotRebuilds ==
    (sort_mode = "SNAPSHOT" /\ run.pc = "batches" /\ run.batch_id > 0) =>
        LET g == RunGraphOps
            last == run.batch_id - 1
        IN  /\ \A i \in 1..Len(g) :
                   g[i] \notin {"before_batch", "delete_edges_older_than"}
            /\ \A i \in 1..Len(g) :
                   g[i] = "insert_batch" =>
                       i >= 3 /\ g[i - 1] = "construct" /\ g[i - 2] = "destroy"
            /\ ~enable_algs_for_batch(last, run.num_batches, run.num_epochs) =>
                   g = << >>

C12_Witness ==
    /\ sort_mode = "SNAPSHOT" /\ run.pc = "batches"
    /\ \E i \in 1..Len(run.ops) : run.ops[i] = "insert_batch"
    /\ run.batch_id > run.epoch
    /\ run.trial > 0

\* out holds one edge for each (src,dst) pair of in and nothing else, each
\* an edge of in with the pair's largest timestamp, ordered by src, then dst
IsDeduplicatedOf(out, in) ==
    /\ {PairOf(out[i]) : i \in 1..Len(out)} = {PairOf(in[k]) : k \in 1..Len(in)}
    /\ \A i \in 1..Len(out) :
        /\ \E k \in 1..Len(in) : in[k] = out[i]
        /\ \A k \in 1..Len(in) :
            PairOf(in[k]) = PairOf(out[i]) => in[k].timestamp <= out[i].timestamp
    /\ \A i \in 1..(Len(out) - 1) :
        \/ out[i].src < out[i + 1].src
        \/ out[i].src = out[i + 1].src /\ out[i].dst < out[i + 1].dst

\* the edges at offsets from..to-1 of the loaded list, from the first one
\* with timestamp >= t onwards
SuffixFrom(from, to, t) ==
    LET at == {k \in (from + 1)..to : edges[k].timestamp >= t}
    IN  IF at = {} THEN << >>
        ELSE [k \in 1..(to - SetMin(at) + 1) |-> edges[SetMin(at) + k - 1]]

\* C13: with t = getTimestampForWindow(b) the preprocessed batch b is, in
\* UNSORTED mode, batch b from its first edge with timestamp >= t on, order
\* and duplicates kept; in PRESORT mode, Deduplicated of that suffix; in
\* SNAPSHOT mode, Deduplicated of the suffix (first edge with timestamp >= t
\* on) of the run from the first loaded edge through the last edge of b.
C13_PreprocessedBatch ==
    (kind = "edgelist" /\ ret.op = "Dataset::getBatch") =>
        LET bs == args.batch_size
            t == EdgeList_getTimestampForWindow(ret.id)
            lo == ret.id * bs
            hi == (ret.id + 1) * bs
        IN  CASE sort_mode = "UNSORTED" -> ret.val = SuffixFrom(lo, hi, t)
              [] sort_mode = "PRESORT" -> IsDeduplicatedOf(ret.val, SuffixFrom(lo, hi, t))
              [] sort_mode = "SNAPSHOT" -> IsDeduplicatedOf(ret.val, SuffixFrom(0, hi, t))

C13_Witness ==
    /\ kind = "edgelist" /\ ret.op = "Dataset::getBatch"
    /\ sort_mode = "SNAPSHOT"
    /\ ret.id = 2
    /\ edges[1].timestamp < EdgeList_getTimestampForWindow(ret.id)
    /\ PairOf(edges[2]) = PairOf(edges[3])
    /\ Len(ret.val) = 1

\* the constraints on the configuration that a holds violated
ViolatedConstraints(a) ==
    {c \in {"num_epochs", "input_path", "batch_size", "window_size", "num_trials",
            "num_alg_trials"} :
        \/ c = "num_epochs" /\ ~(a.num_epochs > 0)
        \/ c = "input_path" /\ a.input_path = ""
        \/ c = "batch_size" /\ ~(a.batch_size > 0)
        \/ c = "window_size" /\ ~(0 <= a.window_size.num
                                   /\ a.window_size.num <= a.window_size.den)
        \/ c = "num_trials" /\ ~(a.num_trials > 0)
        \/ c = "num_alg_trials" /\ ~(a.num_alg_trials > 0)}

\* C14: validation of the configuration is fatal for every configuration
\* that violates one of num_epochs > 0, non-empty input source,
\* batch_size > 0, window_size in [0,1], num_trials > 0, num_alg_trials > 0,
\* and the diagnostic has one item for every violated constraint.
C14_EveryViolationListed ==
    (cfg.what = "Args" /\ cfg.by # "none") =>
        /\ ViolatedConstraints(cfg.value) # {} => cfg.fatal
        /\ Len(cfg.messages) = Cardinality(ViolatedConstraints(cfg.value))

\* C16: RmatArgs::validate returns an error whenever one of a, b, c, d is
\* outside [0,1], or a+b+c+d > 1.0, or num_edges <= 0, or num_vertices <= 0,
\* and the empty string only when none of these is the case.
C16_RmatArgsRejected ==
    (cfg.what = "RmatArgs" /\ cfg.by # "none") =>
        LET r == cfg.value
            invalid == \/ \E p \in {r.a, r.b, r.c, r.d} : p < 0 \/ p > 4
                       \/ r.a + r.b + r.c + r.d > 4
                       \/ r.num_edges <= 0
                       \/ r.num_vertices <= 0
        IN  (cfg.messages = << "" >>) <=> ~invalid

\* C15: constructing an EdgeListDataset or an RmatDataset with batch_size
\* above the number of edges, or num_epochs above floor(num_edges /
\* batch_size), ends in the fatal state; a constructed dataset has
\* 1 <= num_epochs <= num_batches and batch_size <= num_edges.
C15_SizeChecks ==
    kind \in {"edgelist", "rmat"} =>
        LET num_edges == IF kind = "edgelist" THEN Len(edges) ELSE rmat.num_edges
            num_batches == IF kind = "edgelist" THEN Len(batches) ELSE rmat.num_batches
        IN  /\ (\/ args.batch_size > num_edges
                \/ args.num_epochs > num_edges \div args.batch_size) => pc = "fatal"
            /\ pc # "fatal" =>
                   /\ 1 <= args.num_epochs
                   /\ args.num_epochs <= num_batches
                   /\ args.batch_size <= num_edges

C15_Witness ==
    /\ kind = "rmat" /\ pc = "fatal"
    /\ diag = "number of epochs cannot be greater than the number of batches"
    /\ rmat.num_batches >= 1

\* C17: loading a binary edge file whose size is no multiple of 32 bytes
\* ends in the fatal state; a file of 32*n bytes loads its n records in order.
C17_BinarySizeChecked ==
    (loader.format = "binary" /\ loader.pc # "idle") =>
        IF st_size(loader.file) % EdgeBytes # 0
            THEN loader.pc = "fatal"
        ELSE loader.pc = "loaded" /\ loader.edges = loader.file.records

\* C18: a text load stores as many edges as the file has newlines, the k-th
\* stored edge being the k-th complete line, and never stores through an
\* index at or past that count.
C18_NoStorePastCount ==
    loader.format = "text" =>
        /\ Len(loader.edges) = loader.numEdges
        /\ \A i \in loader.written : i < loader.numEdges

\* C19: once an fscanf call of the text loader has converted fewer than four
\* fields with input still unread, the load is in the fatal state.
C19_ParseFailureIsFatal ==
    (/\ loader.format = "text" /\ loader.e > 0
     /\ loader.rc \in 0..3
     /\ loader.pos <= Len(loader.file.tokens)) => loader.pc = "fatal"

\* C20: a getBatch request to the generator with a batch id outside
\* 0..num_batches-1, the in-order request for id = num_batches included, ends
\* in the fatal state.
C20_BatchIdInRange ==
    (/\ kind = "rmat" /\ call.op = "getBatch"
     /\ (call.id < 0 \/ call.id >= rmat.num_batches)) => pc = "fatal"

\* the slice of batch b that rank r holds after the scatter of batch b
MpiSliceOf(r, b) ==
    LET local_slice_size == mpi.edges_per_slice[r + 1]
    IN  SubSeq(mpi.local[r + 1], b * local_slice_size + 1, (b + 1) * local_slice_size)

RECURSIVE MpiSlicesJoined(_, _)
MpiSlicesJoined(r, b) ==
    IF r < 0 THEN << >> ELSE MpiSlicesJoined(r - 1, b) \o MpiSliceOf(r, b)

\* C21: of a batch of edges_per_batch edges rank r receives
\* floor(edges_per_batch / P) edges, and one more iff r < edges_per_batch mod
\* P; the slices of a batch, joined in rank order, are the batch itself
\* (disjoint, contiguous, covering), and two slice sizes differ by at most 1.
C21_EvenPartition ==
    mpi.pc \in {"scattering", "fatal"} =>
        LET P == mpi.comm_size
            epb == mpi.edges_per_batch
        IN  \A b \in 0..(mpi.batch_id - 1) :
               /\ \A r \in 0..(P - 1) :
                     Len(MpiSliceOf(r, b)) =
                         (epb \div P) + (IF r < epb % P THEN 1 ELSE 0)
               /\ MpiSlicesJoined(P - 1, b) =
                      SubSeq(mpi.all_edges, b * epb + 1, (b + 1) * epb)
               /\ \A r, q \in 0..(P - 1) :
                     Len(MpiSliceOf(r, b)) - Len(MpiSliceOf(q, b)) \in {-1, 0, 1}

C21_Witness ==
    /\ mpi.pc = "fatal" /\ mpi.comm_size >= 2 /\ mpi.num_batches >= 2
    /\ mpi.batch_id = mpi.num_batches
    /\ mpi.edges_per_batch % mpi.comm_size # 0
    /\ mpi.edges_per_batch > mpi.comm_size

\* C22: when run() makes two or more trials over an RmatDataset in UNSORTED
\* or PRESORT mode, no request for a batch is rejected as out of order.
C22_NoRequestRejected ==
    (kind = "rmat" /\ run.num_trials >= 2 /\ sort_mode # "SNAPSHOT") =>
        ~(/\ run.pc = "fatal" /\ pc = "fatal"
          /\ call.op = "getBatch"
          /\ diag = "Assertion `batchId == current_batch' failed")

\* the calls of an iteration that change the graph instance or run on it
RunMutatingOps(ops) ==
    SelectSeq(ops, LAMBDA op : op \in {"construct", "destroy", "before_batch",
                                       "delete_edges_older_than", "insert_batch",
                                       "update_alg"})

\* C23: in UNSORTED and PRESORT mode every iteration of the batch loop
\* takes the next batch id and calls before_batch, then
\* delete_edges_older_than iff window_size < 1.0, then insert_batch, then
\* the algorithms, if any; it neither destroys nor constructs the graph.
C23_IncrementalOrder ==
    [][(/\ sort_mode # "SNAPSHOT"
        /\ run.pc = "batches" /\ run.batch_id < run.num_batches
        /\ run'.pc = "batches") =>
           LET trigger == enable_algs_for_batch(run.batch_id, run.num_batches,
                                                run.num_epochs)
               n == IF trigger THEN run.num_alg_trials * Len(run.alg_names) ELSE 0
           IN  /\ run'.batch_id = run.batch_id + 1
               /\ RunMutatingOps(run'.ops) =
                      << "before_batch" >>
                      \o (IF ~run.window_full THEN << "delete_edges_older_than" >>
                          ELSE << >>)
                      \o << "insert_batch" >>
                      \o [k \in 1..n |-> "update_alg"]]_vars

C23_Witness ==
    /\ sort_mode = "PRESORT" /\ run.pc = "batches" /\ ~run.window_full
    /\ run.batch_id >= 2
    /\ \E i, j \in 1..Len(run.ops) :
          run.ops[i] = "delete_edges_older_than" /\ run.ops[j] = "update_alg"

\* num_alg_trials repetitions of the algorithm list, a rollback before each
\* but the first
RECURSIVE ExpectedAlgRuns(_, _)
ExpectedAlgRuns(k, names) ==
    IF k <= 0 THEN << >>
    ELSE ExpectedAlgRuns(k - 1, names)
         \o (IF k > 1 THEN << "rollback" >> ELSE << >>) \o names

\* C24: at an epoch-triggering batch run() runs the configured algorithms,
\* in list order, num_alg_trials times, rolls the result buffers back before
\* every repetition but the first, and captures the results and advances
\* the epoch once, after the last repetition; other batches run no algorithm.
C24_AlgRepetitions ==
    [][(/\ run.pc = "batches" /\ run.batch_id < run.num_batches
        /\ run'.pc = "batches") =>
           LET trigger == enable_algs_for_batch(run.batch_id, run.num_batches,
                                                run.num_epochs)
               a == SelectSeq(run'.ops,
                              LAMBDA op : op \in {"rollback", "dump", "next_epoch",
                                                  "bfs", "bc"})
           IN  IF trigger
                   THEN /\ a = ExpectedAlgRuns(run.num_alg_trials, run.alg_names)
                                \o << "dump", "next_epoch" >>
                        /\ run'.epoch = run.epoch + 1
               ELSE a = << >> /\ run'.epoch = run.epoch]_vars

C24_Witness ==
    /\ run.pc = "batches" /\ run.num_alg_trials = 2
    /\ run.alg_names = << "bfs", "bc" >>
    /\ run.epoch >= 2
    /\ \E i \in 1..Len(run.ops) : run.ops[i] = "rollback"

\* C25: over an in-order pass of getBatch calls on an RmatDataset, batch k
\* holds batch_size edges of weight 1 with the timestamps k*batch_size, ...,
\* (k+1)*batch_size - 1 in order: discarded self-edges use up no timestamp.
C25_SequentialTimestamps ==
    kind = "rmat" =>
        \A k \in 1..Len(hist.cur) :
            (\A j \in 1..k : hist.cur[j].op = "getBatch" /\ hist.cur[j].id = j - 1) =>
                LET es == hist.cur[k].edges
                IN  /\ Len(es) = args.batch_size
                    /\ \A i \in 1..Len(es) :
                          /\ es[i].weight = 1
                          /\ es[i].timestamp = (k - 1) * args.batch_size + i - 1

C25_Witness ==
    /\ kind = "rmat" /\ pc = "ready" /\ Len(hist.cur) = 2
    /\ \A j \in 1..2 : hist.cur[j].op = "getBatch" /\ hist.cur[j].id = j - 1
    /\ rmat.num_batches >= 2
    /\ rmat.rmat_args.stream[1].src = rmat.rmat_args.stream[1].dst
    /\ hist.cur[2].edges[1].timestamp = args.batch_size

\* C26: for an RmatDataset getTimestampForWindow(b) =
\* max(min_timestamp, t_last(b) - floor(window_size * (max_timestamp -
\* min_timestamp))), t_last(b) = (b+1)*batch_size - 1 the timestamp given to
\* the last edge of batch b, 0 and num_batches*batch_size - 1 the smallest
\* and largest timestamp of a full pass.
C26_RmatWindowFormula ==
    (kind = "rmat" /\ ret.op = "getTimestampForWindow") =>
        LET first_ts == 0
            last_ts == rmat.num_batches * args.batch_size - 1
            t_last == (ret.id + 1) * args.batch_size - 1
            floor == (args.window_size.num * (last_ts - first_ts)) \div args.window_size.den
        IN  ret.val = Max2(first_ts, t_last - floor)

\* C27: for an EdgeListDataset the threshold getTimestampForWindow(b) is at
\* least min_timestamp, at most the timestamp of the last edge of batch b,
\* and does not decrease as b grows.
C27_ThresholdMonotone ==
    [][(kind = "edgelist" /\ ret'.op = "getTimestampForWindow") =>
           /\ ret'.val >= min_timestamp
           /\ ret'.val <= edges[(ret'.id + 1) * args.batch_size].timestamp
           /\ (ret.op = "getTimestampForWindow" /\ ret.id <= ret'.id) =>
                  ret.val <= ret'.val]_vars

C27_Witness ==
    /\ kind = "edgelist" /\ ret.op = "getTimestampForWindow"
    /\ ret.id >= 1
    /\ ret.val > EdgeList_getTimestampForWindow(0)
    /\ EdgeList_getTimestampForWindow(0) = min_timestamp
    /\ ret.val < edges[(ret.id + 1) * args.batch_size].timestamp

\* C28: the deduplicated batch is determined by the multiset of the input
\* edges: every rearrangement of the input, under every outcome of the sort,
\* gives the same deduplicated sequence, also when two edges share
\* (src, dst, timestamp) and differ in weight.
C28_DeterminedByMultiset ==
    dedup.phase = "deduplicated" =>
        \A f \in Perms(Len(dedup.batch)) :
            \A q \in SortOutcomes([i \in 1..Len(dedup.batch) |-> dedup.batch[f[i]]]) :
                unique_copy(q) = dedup.deduped_edges

\* C29: with window_size < 1.0, after every epoch-triggering batch the
\* graph built incrementally in UNSORTED or PRESORT mode holds the same
\* (src, dst, timestamp) entries as the graph SNAPSHOT mode rebuilds at that
\* batch from the same EdgeListDataset.
C29_IncrementalEqualsSnapshot ==
    (/\ kind = "edgelist" /\ graph.pc = "batches" /\ graph.fresh
     /\ args.window_size.num < args.window_size.den) =>
        graph.inc = graph.snap

C29_Witness ==
    /\ kind = "edgelist" /\ graph.pc = "batches" /\ graph.fresh
    /\ args.window_size.num < args.window_size.den
    /\ graph.batch_id >= 2
    /\ graph.inc # {}
    /\ \E i \in 1..Len(edges) :
          /\ i <= batches[graph.batch_id].end
          /\ \A x \in graph.inc : ~(x.src = edges[i].src /\ x.dst = edges[i].dst)
    /\ \E i, j \in 1..Len(edges) :
          /\ i < j /\ PairOf(edges[i]) = PairOf(edges[j])
          /\ edges[i].timestamp < edges[j].timestamp
          /\ EntryOf(edges[j]) \in graph.inc

\* C30: generating an RMAT batch terminates: whenever the constructor of a
\* batch is in its loop, the generator of the accepted parameter set can
\* still emit an edge with src # dst, so the discard-and-regenerate loop
\* cannot go on forever.
C30_BatchTerminates ==
    (kind = "rmat" /\ pc = "generating") => EmitsNonSelfEdge(rmat.rmat_args)

=============================================================================
